---- MODULE Spec2Model ----
(***************************************************************************)
(* Typed uniform / data-transfer subsystem of three-d (src/src/core.rs):   *)
(* the DataType and PrimitiveDataType implementations, the byte-view       *)
(* helpers to_byte_slice / from_byte_slice and format_from_data_type.      *)
(*                                                                         *)
(* Integer elements are their numeric values.  Floating point elements are *)
(* their IEEE-754 fields [s, e, m] (sign, biased exponent, mantissa), so   *)
(* that conversions are computed on the representation.                    *)
(***************************************************************************)
EXTENDS Integers, Sequences, FiniteSets, TLC

VARIABLES
    T,          \* the value type the generic code is instantiated with
    commands,   \* transfer commands the context has received, in order
    call,       \* the last operation: its inputs and what came back
    ncalls      \* operations performed so far

vars == <<T, commands, call, ncalls>>

(***************************************************************************)
(* Bounds of the exploration.                                              *)
(***************************************************************************)
MaxLen == 2         \* longest array handed to an operation
MaxCalls == 1       \* operations explored per behaviour of Spec
MaxBytes == 9       \* longest raw byte buffer handed to from_byte_slice
MaxAddr == 3        \* largest start address of a buffer
MaxCount == 5       \* largest component count asked of internal_format_with_size
MaxDepth == 2       \* levels of reference in front of a value type: &T, &&T
MaxSends == 3       \* send_uniform calls in a sequence of mixed value types

(***************************************************************************)
(* Arithmetic helpers.                                                     *)
(***************************************************************************)
RECURSIVE Pow2(_)
Pow2(n) == IF n = 0 THEN 1 ELSE 2 * Pow2(n - 1)

RECURSIVE Concat(_)
Concat(ss) == IF ss = <<>> THEN <<>> ELSE Head(ss) \o Concat(Tail(ss))

SeqsUpTo(S, n) == UNION {[1..k -> S] : k \in 0..n}

(***************************************************************************)
(* The closed set of primitive kinds and the shapes built on them.         *)
(***************************************************************************)
Kinds == {"u8", "u16", "u32", "i8", "i16", "i32", "f16", "f32"}
NarrowKinds == {"u8", "u16", "i8", "i16", "f16"}
IntKinds == {"u8", "u16", "u32", "i8", "i16", "i32"}
FloatKinds == {"f16", "f32"}

VectorShapes == {"Vector2", "Vector3", "Vector4"}
ArrayShapes == {"Array2", "Array3", "Array4"}
MatrixShapes == {"Matrix2", "Matrix3", "Matrix4"}
GenericShapes ==
    {"Scalar", "Quaternion"} \cup VectorShapes \cup ArrayShapes \cup MatrixShapes

ColorType == [shape |-> "Color", kind |-> "u8"]
ValueTypes == [shape : GenericShapes, kind : Kinds] \cup {ColorType}

UniformTypes == {"Value", "Vec2", "Vec3", "Vec4", "Mat2", "Mat3", "Mat4"}

Locations == {"locA", "locB"}

(***************************************************************************)
(* Integer casts (`*v as u32`, `*v as i32`), computed on the two's         *)
(* complement bits of the source width w.                                  *)
(***************************************************************************)
Bits(v, w) == v % Pow2(w)

as_u32(v, w) == Bits(v, w)

as_i32_zero_extended(v, w) == Bits(v, w)

as_i32(v, w) ==
    LET b == Bits(v, w)
    IN  IF b >= Pow2(w - 1) THEN b - Pow2(w) ELSE b

(***************************************************************************)
(* f16 -> f32 (`v.to_f32()`), field by field.                              *)
(***************************************************************************)
RECURSIVE TopBit(_)
TopBit(m) == IF m <= 1 THEN 0 ELSE 1 + TopBit(m \div 2)

to_f32(h) ==
    IF h.e = 0 /\ h.m = 0 THEN [s |-> h.s, e |-> 0, m |-> 0]
    ELSE IF h.e = 31 /\ h.m = 0 THEN [s |-> h.s, e |-> 255, m |-> 0]
    ELSE IF h.e = 31
         THEN [s |-> h.s, e |-> 255, m |-> 4194304 + ((h.m * 8192) % 4194304)]
    ELSE IF h.e = 0
         THEN LET k == TopBit(h.m)
              IN  [s |-> h.s, e |-> 103 + k,
                   m |-> (h.m - Pow2(k)) * Pow2(23 - k)]
    ELSE [s |-> h.s, e |-> h.e + 112, m |-> h.m * 8192]

(***************************************************************************)
(* `v as f32` for a u8 (exact) and the f32 division by 255.0, rounded to   *)
(* nearest.  A quotient a/255 with 255 <= a < 510 has mantissa             *)
(* round((a - 255) * 2^23 / 255); 255 is odd, so there are no ties.        *)
(***************************************************************************)
u8_as_f32(v) ==
    IF v = 0 THEN [s |-> 0, e |-> 0, m |-> 0]
    ELSE LET k == TopBit(v)
         IN  [s |-> 0, e |-> 127 + k, m |-> (v - Pow2(k)) * Pow2(23 - k)]

RECURSIVE ScaleTo255(_, _)
\* smallest j with v * 2^j >= 255, for 1 <= v <= 255
ScaleTo255(v, j) == IF v * Pow2(j) >= 255 THEN j ELSE ScaleTo255(v, j + 1)

RoundDiv255(n) == (n \div 255) + (IF 2 * (n % 255) > 255 THEN 1 ELSE 0)

div_256(x) ==
    IF x.e = 0 THEN [s |-> 0, e |-> 0, m |-> 0]
    ELSE [s |-> 0, e |-> x.e - 8, m |-> x.m]

\* x is u8_as_f32(v) for a v in 0..255: sig * 2^(e-150) with sig = 2^23 + m
div_255(x) ==
    IF x.e = 0 THEN [s |-> 0, e |-> 0, m |-> 0]
    ELSE LET v == (8388608 + x.m) \div Pow2(150 - x.e)
             j == ScaleTo255(v, 0)
             a == v * Pow2(j)
         IN  [s |-> 0, e |-> 127 - j, m |-> RoundDiv255((a - 255) * 8388608)]

normalize_channel(c) == div_255(u8_as_f32(c))

(***************************************************************************)
(* Sample elements of each kind (edge values first) and the two sample     *)
(* values of each value type, built from them so that neighbouring         *)
(* components differ.                                                      *)
(***************************************************************************)
F(s, e, m) == [s |-> s, e |-> e, m |-> m]

Samples(kind) ==
    CASE kind = "u8"  -> <<255, 1, 0, 128, 2, 3, 254>>
      [] kind = "u16" -> <<65535, 1, 0, 32768, 256, 255, 2>>
      [] kind = "u32" -> <<2147483647, 1, 0, 65536, 2, 3, 70000>>
      [] kind = "i8"  -> <<-1, 127, 0, -128, 1, 2, -2>>
      [] kind = "i16" -> <<-1, 32767, 0, -32768, 256, -129, 1>>
      [] kind = "i32" -> <<-1, 2147483647, 0, -2147483647, 65536, -65537, 1>>
      [] kind = "f16" -> <<F(0, 15, 0), F(1, 16, 0), F(0, 0, 1), F(0, 30, 1023),
                           F(1, 0, 513), F(1, 31, 0), F(0, 31, 1)>>
      [] kind = "f32" -> <<F(0, 127, 0), F(0, 128, 0), F(0, 128, 4194304),
                           F(1, 126, 0), F(0, 129, 0), F(0, 0, 0),
                           F(1, 130, 2097152)>>

Comp(kind, j, i) == Samples(kind)[((3 * j + i) % 7) + 1]

Vec(kind, j, i, n) ==
    CASE n = 2 -> [x |-> Comp(kind, j, i), y |-> Comp(kind, j, i + 1)]
      [] n = 3 -> [x |-> Comp(kind, j, i), y |-> Comp(kind, j, i + 1),
                   z |-> Comp(kind, j, i + 2)]
      [] n = 4 -> [x |-> Comp(kind, j, i), y |-> Comp(kind, j, i + 1),
                   z |-> Comp(kind, j, i + 2), w |-> Comp(kind, j, i + 3)]

Value(t, j) ==
    LET k == t.kind
    IN  CASE t.shape = "Scalar"  -> Comp(k, j, 0)
          [] t.shape = "Vector2" -> Vec(k, j, 0, 2)
          [] t.shape = "Vector3" -> Vec(k, j, 0, 3)
          [] t.shape = "Vector4" -> Vec(k, j, 0, 4)
          [] t.shape = "Array2"  -> [i \in 1..2 |-> Comp(k, j, i - 1)]
          [] t.shape = "Array3"  -> [i \in 1..3 |-> Comp(k, j, i - 1)]
          [] t.shape = "Array4"  -> [i \in 1..4 |-> Comp(k, j, i - 1)]
          [] t.shape = "Quaternion" -> [v |-> Vec(k, j, 0, 3), s |-> Comp(k, j, 3)]
          [] t.shape = "Matrix2" -> [x |-> Vec(k, j, 0, 2), y |-> Vec(k, j, 2, 2)]
          [] t.shape = "Matrix3" ->
                [x |-> Vec(k, j, 0, 3), y |-> Vec(k, j, 3, 3), z |-> Vec(k, j, 6, 3)]
          [] t.shape = "Matrix4" ->
                [x |-> Vec(k, j, 0, 4), y |-> Vec(k, j, 4, 4),
                 z |-> Vec(k, j, 8, 4), w |-> Vec(k, j, 12, 4)]
          [] t.shape = "Color" ->
                IF j = 0 THEN [r |-> 255, g |-> 128, b |-> 0, a |-> 255]
                         ELSE [r |-> 1, g |-> 2, b |-> 3, a |-> 254]

Values(t) == {Value(t, j) : j \in 0..1}

Arrays(t) == SeqsUpTo(Values(t), MaxLen)

(***************************************************************************)
(* What a call gives back: it returns (a value, or the commands it issued  *)
(* to the context) or it panics.                                           *)
(***************************************************************************)
Returned(v) == [outcome |-> "returned", value |-> v]
Panicked(why) == [outcome |-> "panic", value |-> why]

Issued_at_first_location(entry, location, transpose, data) ==
    [outcome |-> "returned",
     value |-> <<[entry |-> entry, location |-> "locA",
                  transpose |-> transpose, data |-> data]>>]

Issued(entry, location, transpose, data) ==
    [outcome |-> "returned",
     value |-> <<[entry |-> entry, location |-> location,
                  transpose |-> transpose, data |-> data]>>]

\* r, reached through the implementation named step: chain lists the
\* implementations entered, outermost first
Via(step, r) ==
    [outcome |-> r.outcome, value |-> r.value,
     chain |-> <<step>> \o (IF "chain" \in DOMAIN r THEN r.chain ELSE <<>>)]

(***************************************************************************)
(* PrimitiveDataType::send_uniform_with_type of the three native kinds.    *)
(* transpose is "none" for the entry points that take no such argument.    *)
(***************************************************************************)
send_uniform_with_type_u32_one_short(location, data, type_) ==
    Via("u32",
        CASE type_ = "Value" -> Issued("uniform_1_u32_slice", location, "none", data)
          [] type_ = "Vec2"  -> Issued("uniform_1_u32_slice", location, "none", data)
          [] type_ = "Vec3"  -> Issued("uniform_2_u32_slice", location, "none", data)
          [] type_ = "Vec4"  -> Issued("uniform_3_u32_slice", location, "none", data)
          [] OTHER -> Panicked("not implemented"))

send_uniform_with_type_u32(location, data, type_) ==
    Via("u32",
        CASE type_ = "Value" -> Issued("uniform_1_u32_slice", location, "none", data)
          [] type_ = "Vec2"  -> Issued("uniform_2_u32_slice", location, "none", data)
          [] type_ = "Vec3"  -> Issued("uniform_3_u32_slice", location, "none", data)
          [] type_ = "Vec4"  -> Issued("uniform_4_u32_slice", location, "none", data)
          [] OTHER -> Panicked("not implemented"))

send_uniform_with_type_i32(location, data, type_) ==
    Via("i32",
        CASE type_ = "Value" -> Issued("uniform_1_i32_slice", location, "none", data)
          [] type_ = "Vec2"  -> Issued("uniform_2_i32_slice", location, "none", data)
          [] type_ = "Vec3"  -> Issued("uniform_3_i32_slice", location, "none", data)
          [] type_ = "Vec4"  -> Issued("uniform_4_i32_slice", location, "none", data)
          [] OTHER -> Panicked("not implemented"))

send_uniform_with_type_f32(location, data, type_) ==
    Via("f32",
        CASE type_ = "Value" -> Issued("uniform_1_f32_slice", location, "none", data)
          [] type_ = "Vec2"  -> Issued("uniform_2_f32_slice", location, "none", data)
          [] type_ = "Vec3"  -> Issued("uniform_3_f32_slice", location, "none", data)
          [] type_ = "Vec4"  -> Issued("uniform_4_f32_slice", location, "none", data)
          [] type_ = "Mat2"  ->
                Issued("uniform_matrix_2_f32_slice", location, "false", data)
          [] type_ = "Mat3"  ->
                Issued("uniform_matrix_3_f32_slice", location, "false", data)
          [] type_ = "Mat4"  ->
                Issued("uniform_matrix_4_f32_slice", location, "false", data))

(***************************************************************************)
(* The narrow kinds: widen every element, then the native kind's dispatch. *)
(***************************************************************************)
widen_u8(v) == as_u32(v, 8)
widen_u16(v) == as_u32(v, 16)
widen_i8_zero_extending(v) == as_i32_zero_extended(v, 8)
widen_i8(v) == as_i32(v, 8)
widen_i16(v) == as_i32(v, 16)

send_uniform_with_type_u8(location, data, type_) ==
    Via("u8", send_uniform_with_type_u32(
                 location, [i \in 1..Len(data) |-> widen_u8(data[i])], type_))

send_uniform_with_type_u16_through_u8(location, data, type_) ==
    Via("u16", send_uniform_with_type_u8(
                  location, [i \in 1..Len(data) |-> data[i] % 256], type_))

send_uniform_with_type_u16(location, data, type_) ==
    Via("u16", send_uniform_with_type_u32(
                 location, [i \in 1..Len(data) |-> widen_u16(data[i])], type_))

send_uniform_with_type_i8(location, data, type_) ==
    Via("i8", send_uniform_with_type_i32(
                 location, [i \in 1..Len(data) |-> widen_i8(data[i])], type_))

send_uniform_with_type_i16(location, data, type_) ==
    Via("i16", send_uniform_with_type_i32(
                 location, [i \in 1..Len(data) |-> widen_i16(data[i])], type_))

send_uniform_with_type_f16(location, data, type_) ==
    Via("f16", send_uniform_with_type_f32(
                 location, [i \in 1..Len(data) |-> to_f32(data[i])], type_))

send_uniform_with_type(kind, location, data, type_) ==
    CASE kind = "u8"  -> send_uniform_with_type_u8(location, data, type_)
      [] kind = "u16" -> send_uniform_with_type_u16(location, data, type_)
      [] kind = "u32" -> send_uniform_with_type_u32(location, data, type_)
      [] kind = "i8"  -> send_uniform_with_type_i8(location, data, type_)
      [] kind = "i16" -> send_uniform_with_type_i16(location, data, type_)
      [] kind = "i32" -> send_uniform_with_type_i32(location, data, type_)
      [] kind = "f16" -> send_uniform_with_type_f16(location, data, type_)
      [] kind = "f32" -> send_uniform_with_type_f32(location, data, type_)

(***************************************************************************)
(* DataType::send_uniform: the closure each implementation flat_maps over  *)
(* the array, and the UniformType it passes on.                            *)
(***************************************************************************)
flat_Vector2(v) == <<v.x, v.y>>
flat_Vector3(v) == <<v.x, v.y, v.z>>
flat_Vector4(v) == <<v.x, v.y, v.z, v.w>>
flat_Array(v) == v
flat_Quaternion_scalar_first(v) == <<v.s, v.v.x, v.v.y, v.v.z>>
flat_Quaternion(v) == <<v.v.x, v.v.y, v.v.z, v.s>>
flat_Color(v) ==
    <<normalize_channel(v.r), normalize_channel(v.g),
      normalize_channel(v.b), normalize_channel(v.a)>>
flat_Matrix2_row_major(v) == <<v.x.x, v.y.x, v.x.y, v.y.y>>
flat_Matrix2(v) == <<v.x.x, v.x.y, v.y.x, v.y.y>>
flat_Matrix3(v) ==
    <<v.x.x, v.x.y, v.x.z, v.y.x, v.y.y, v.y.z, v.z.x, v.z.y, v.z.z>>
flat_Matrix4(v) ==
    <<v.x.x, v.x.y, v.x.z, v.x.w, v.y.x, v.y.y, v.y.z, v.y.w,
      v.z.x, v.z.y, v.z.z, v.z.w, v.w.x, v.w.y, v.w.z, v.w.w>>

flat(shape, v) ==
    CASE shape = "Scalar"     -> <<v>>
      [] shape = "Vector2"    -> flat_Vector2(v)
      [] shape = "Vector3"    -> flat_Vector3(v)
      [] shape = "Vector4"    -> flat_Vector4(v)
      [] shape \in ArrayShapes -> flat_Array(v)
      [] shape = "Quaternion" -> flat_Quaternion(v)
      [] shape = "Color"      -> flat_Color(v)
      [] shape = "Matrix2"    -> flat_Matrix2(v)
      [] shape = "Matrix3"    -> flat_Matrix3(v)
      [] shape = "Matrix4"    -> flat_Matrix4(v)

flat_map(shape, data) == Concat([i \in 1..Len(data) |-> flat(shape, data[i])])

uniform_type(shape) ==
    CASE shape = "Scalar" -> "Value"
      [] shape \in {"Vector2", "Array2"} -> "Vec2"
      [] shape \in {"Vector3", "Array3"} -> "Vec3"
      [] shape \in {"Vector4", "Array4", "Quaternion", "Color"} -> "Vec4"
      [] shape = "Matrix2" -> "Mat2"
      [] shape = "Matrix3" -> "Mat3"
      [] shape = "Matrix4" -> "Mat4"

dispatch_kind_of_storage(t) == t.kind

\* the kind whose send_uniform_with_type the implementation for t calls
dispatch_kind(t) == IF t.shape = "Color" THEN "f32" ELSE t.kind

send_uniform(t, location, data) ==
    send_uniform_with_type(dispatch_kind(t), location,
                           flat_map(t.shape, data), uniform_type(t.shape))

(***************************************************************************)
(* impl DataType for &T, for every T: DataType, a reference type &U among  *)
(* them.  A reference is modelled by what it points to; depth counts the   *)
(* levels of reference in front of the value type t (1 for &t, 2 for &&t). *)
(* The implementation clones every referent into a Vec and hands that to   *)
(* the implementation of the type referred to: t's own at depth 1, the one *)
(* for the reference one level down otherwise.                             *)
(***************************************************************************)
RECURSIVE RefTo(_, _)
RefTo(depth, v) == IF depth = 0 THEN v ELSE [to |-> RefTo(depth - 1, v)]

deref(r) == r.to
clone(v) == v

RECURSIVE ref_send_uniform(_, _, _, _)
ref_send_uniform_newest_first(depth, t, location, data) ==
    LET cloned == [i \in 1..Len(data) |-> clone(deref(data[Len(data) + 1 - i]))]
    IN  Via("ref", IF depth = 1 THEN send_uniform(t, location, cloned)
                   ELSE ref_send_uniform(depth - 1, t, location, cloned))

ref_send_uniform(depth, t, location, data) ==
    LET cloned == [i \in 1..Len(data) |-> clone(deref(data[i]))]
    IN  Via("ref", IF depth = 1 THEN send_uniform(t, location, cloned)
                   ELSE ref_send_uniform(depth - 1, t, location, cloned))

(***************************************************************************)
(* The classifier: PrimitiveDataType::internal_format_with_size and        *)
(* DataType::{size, data_type, internal_format}.  Tags are the names of    *)
(* the crate::context constants.                                           *)
(***************************************************************************)
FormatTags(kind) ==
    CASE kind = "u8"  -> <<"R8", "RG8", "RGB8", "RGBA8">>
      [] kind = "u16" -> <<"R16UI", "RG16UI", "RGB16UI", "RGBA16UI">>
      [] kind = "u32" -> <<"R32UI", "RG32UI", "RGB32UI", "RGBA32UI">>
      [] kind = "i8"  -> <<"R8I", "RG8I", "RGB8I", "RGBA8I">>
      [] kind = "i16" -> <<"R16I", "RG16I", "RGB16I", "RGBA16I">>
      [] kind = "i32" -> <<"R32I", "RG32I", "RGB32I", "RGBA32I">>
      [] kind = "f16" -> <<"R16F", "RG16F", "RGB16F", "RGBA16F">>
      [] kind = "f32" -> <<"R32F", "RG32F", "RGB32F", "RGBA32F">>

internal_format_with_size_defaulting(kind, n) ==
    CASE n = 1 -> Returned(FormatTags(kind)[1])
      [] n = 2 -> Returned(FormatTags(kind)[2])
      [] n = 3 -> Returned(FormatTags(kind)[3])
      [] OTHER -> Returned(FormatTags(kind)[4])

internal_format_with_size(kind, n) ==
    CASE n = 1 -> Returned(FormatTags(kind)[1])
      [] n = 2 -> Returned(FormatTags(kind)[2])
      [] n = 3 -> Returned(FormatTags(kind)[3])
      [] n = 4 -> Returned(FormatTags(kind)[4])
      [] OTHER -> Panicked("unreachable")

data_type_of_kind(kind) ==
    CASE kind = "u8"  -> "UNSIGNED_BYTE"
      [] kind = "u16" -> "UNSIGNED_SHORT"
      [] kind = "u32" -> "UNSIGNED_INT"
      [] kind = "i8"  -> "BYTE"
      [] kind = "i16" -> "SHORT"
      [] kind = "i32" -> "INT"
      [] kind = "f16" -> "HALF_FLOAT"
      [] kind = "f32" -> "FLOAT"

size_by_dimension(t) ==
    CASE t.shape = "Scalar" -> 1
      [] t.shape \in {"Vector2", "Array2", "Matrix2"} -> 2
      [] t.shape \in {"Vector3", "Array3", "Matrix3"} -> 3
      [] t.shape \in {"Vector4", "Array4", "Quaternion", "Color", "Matrix4"} -> 4

size(t) ==
    CASE t.shape = "Scalar" -> 1
      [] t.shape \in {"Vector2", "Array2"} -> 2
      [] t.shape \in {"Vector3", "Array3"} -> 3
      [] t.shape \in {"Vector4", "Array4", "Quaternion", "Color", "Matrix2"} -> 4
      [] t.shape = "Matrix3" -> 9
      [] t.shape = "Matrix4" -> 16

data_type(t) == data_type_of_kind(t.kind)

internal_format(t) == internal_format_with_size(t.kind, size(t))

\* impl DataType for &T: the classifier of T
RECURSIVE ref_internal_format(_, _)
ref_internal_format(depth, t) ==
    IF depth = 1 THEN internal_format(t) ELSE ref_internal_format(depth - 1, t)

RECURSIVE ref_data_type(_, _)
ref_data_type(depth, t) ==
    IF depth = 1 THEN data_type(t) ELSE ref_data_type(depth - 1, t)

RECURSIVE ref_size(_, _)
ref_size(depth, t) ==
    IF depth = 1 THEN size(t) ELSE ref_size(depth - 1, t)

format_from_data_type_off_by_one(t) ==
    CASE size(t) = 1 -> Returned("RED")
      [] size(t) = 2 -> Returned("RGB")
      [] size(t) = 3 -> Returned("RGBA")
      [] OTHER -> Panicked("unreachable")

format_from_data_type(t) ==
    CASE size(t) = 1 -> Returned("RED")
      [] size(t) = 2 -> Returned("RG")
      [] size(t) = 3 -> Returned("RGB")
      [] size(t) = 4 -> Returned("RGBA")
      [] OTHER -> Panicked("unreachable")

(***************************************************************************)
(* Memory layout of the value types: little-endian elements, components in *)
(* declaration order, no padding (every component has the same width).     *)
(***************************************************************************)
elem_size(kind) ==
    CASE kind \in {"u8", "i8"} -> 1
      [] kind \in {"u16", "i16", "f16"} -> 2
      [] kind \in {"u32", "i32", "f32"} -> 4

Byte(v, k) == (v \div Pow2(8 * k)) % 256

elem_bytes(kind, v) ==
    CASE kind \in {"u8", "i8"} -> <<Byte(v, 0)>>
      [] kind \in {"u16", "i16"} -> <<Byte(v, 0), Byte(v, 1)>>
      [] kind \in {"u32", "i32"} -> <<Byte(v, 0), Byte(v, 1), Byte(v, 2), Byte(v, 3)>>
      [] kind = "f16" ->
            <<v.m % 256, (v.s * 128) + (v.e * 4) + (v.m \div 256)>>
      [] kind = "f32" ->
            <<v.m % 256, (v.m \div 256) % 256,
              ((v.e % 2) * 128) + (v.m \div 65536), (v.s * 128) + (v.e \div 2)>>

elem_from_bytes(kind, b) ==
    CASE kind = "u8"  -> b[1]
      [] kind = "i8"  -> as_i32(b[1], 8)
      [] kind = "u16" -> b[1] + (256 * b[2])
      [] kind = "i16" -> as_i32(b[1] + (256 * b[2]), 16)
      [] kind = "u32" -> b[1] + (256 * b[2]) + (65536 * b[3]) + (16777216 * b[4])
      [] kind = "i32" ->
            b[1] + (256 * b[2]) + (65536 * b[3]) + (16777216 * as_i32(b[4], 8))
      [] kind = "f16" ->
            F(b[2] \div 128, (b[2] % 128) \div 4, ((b[2] % 4) * 256) + b[1])
      [] kind = "f32" ->
            F(b[4] \div 128, ((b[4] % 128) * 2) + (b[3] \div 128),
              ((b[3] % 128) * 65536) + (256 * b[2]) + b[1])

raw_components(t, v) ==
    IF t.shape = "Color" THEN <<v.r, v.g, v.b, v.a>> ELSE flat(t.shape, v)

VecOf(c, i, n) ==
    CASE n = 2 -> [x |-> c[i], y |-> c[i + 1]]
      [] n = 3 -> [x |-> c[i], y |-> c[i + 1], z |-> c[i + 2]]
      [] n = 4 -> [x |-> c[i], y |-> c[i + 1], z |-> c[i + 2], w |-> c[i + 3]]

from_components(t, c) ==
    CASE t.shape = "Scalar"  -> c[1]
      [] t.shape = "Vector2" -> VecOf(c, 1, 2)
      [] t.shape = "Vector3" -> VecOf(c, 1, 3)
      [] t.shape = "Vector4" -> VecOf(c, 1, 4)
      [] t.shape \in ArrayShapes -> c
      [] t.shape = "Quaternion" -> [v |-> VecOf(c, 1, 3), s |-> c[4]]
      [] t.shape = "Color" -> [r |-> c[1], g |-> c[2], b |-> c[3], a |-> c[4]]
      [] t.shape = "Matrix2" -> [x |-> VecOf(c, 1, 2), y |-> VecOf(c, 3, 2)]
      [] t.shape = "Matrix3" ->
            [x |-> VecOf(c, 1, 3), y |-> VecOf(c, 4, 3), z |-> VecOf(c, 7, 3)]
      [] t.shape = "Matrix4" ->
            [x |-> VecOf(c, 1, 4), y |-> VecOf(c, 5, 4),
             z |-> VecOf(c, 9, 4), w |-> VecOf(c, 13, 4)]

size_of(t) == size(t) * elem_size(t.kind)
align_of(t) == elem_size(t.kind)

value_bytes(t, v) ==
    LET c == raw_components(t, v)
    IN  Concat([i \in 1..Len(c) |-> elem_bytes(t.kind, c[i])])

value_from_bytes(t, b) ==
    LET w == elem_size(t.kind)
    IN  from_components(t,
            [i \in 1..size(t) |->
                elem_from_bytes(t.kind, SubSeq(b, ((i - 1) * w) + 1, i * w))])

\* the bytes the array occupies, followed by whatever lies behind it
memory_of(t, data) ==
    Concat([i \in 1..Len(data) |-> value_bytes(t, data[i])]) \o <<170, 85, 170, 85>>

(***************************************************************************)
(* to_byte_slice: from_raw_parts(data.as_ptr(), data.len() * size_of T).   *)
(***************************************************************************)
to_byte_slice_counting_elements(t, data) == SubSeq(memory_of(t, data), 1, Len(data))

to_byte_slice(t, data) ==
    SubSeq(memory_of(t, data), 1, Len(data) * size_of(t))

(***************************************************************************)
(* from_byte_slice: the middle part of data.align_to::<T>(); the prefix up *)
(* to the first aligned address and the suffix that does not fill an       *)
(* element are dropped.  addr is the address of the first byte.            *)
(***************************************************************************)
align_offset(addr, align) == (align - (addr % align)) % align

align_to(t, addr, bytes) ==
    LET off == align_offset(addr, align_of(t))
    IN  IF off > Len(bytes)
        THEN [prefix |-> bytes, values |-> <<>>, suffix |-> <<>>]
        ELSE LET rest == SubSeq(bytes, off + 1, Len(bytes))
                 n == Len(rest) \div size_of(t)
             IN  [prefix |-> SubSeq(bytes, 1, off),
                  values |-> [i \in 1..n |->
                      value_from_bytes(t,
                          SubSeq(rest, ((i - 1) * size_of(t)) + 1, i * size_of(t)))],
                  suffix |-> SubSeq(rest, (n * size_of(t)) + 1, Len(rest))]

from_byte_slice(t, addr, bytes) == align_to(t, addr, bytes).values

(***************************************************************************)
(* Inputs of the byte bridge.  Raw buffers hold bytes below 128, so that   *)
(* every u32 read from them is below 2^31.                                 *)
(***************************************************************************)
ByteBuffers ==
    {[i \in 1..n |-> (seed + (83 * i)) % 128] : n \in 0..MaxBytes, seed \in {0}}

Addresses == 0..MaxAddr

AlignedAddresses(t) == {a \in Addresses : a % align_of(t) = 0}

(***************************************************************************)
(* The state machine.  Every behaviour instantiates the generic code with  *)
(* one value type T.                                                       *)
(***************************************************************************)
Init ==
    /\ T \in ValueTypes
    /\ commands = <<>>
    /\ call = [op |-> "none"]
    /\ ncalls = 0

\* T::send_uniform(context, location, data)
SendUniform(location, data) ==
    LET r == send_uniform(T, location, data)
    IN  /\ ncalls < MaxCalls
        /\ commands' = IF r.outcome = "returned" THEN commands \o r.value
                                                 ELSE commands
        /\ call' = [op |-> "send_uniform", location |-> location, data |-> data,
                    outcome |-> r.outcome,
                    issued |-> Len(commands') - Len(commands),
                    value |-> IF r.outcome = "returned" THEN "unit" ELSE r.value,
                    chain |-> r.chain]
        /\ ncalls' = ncalls + 1
        /\ UNCHANGED T

\* <&T>::send_uniform(context, location, data) (<&&T>::send_uniform at depth
\* 2), data an array of references
RefSendUniform(depth, location, data) ==
    LET r == ref_send_uniform(depth, T, location, data)
    IN  /\ ncalls < MaxCalls
        /\ commands' = IF r.outcome = "returned" THEN commands \o r.value
                                                 ELSE commands
        /\ call' = [op |-> "ref_send_uniform", depth |-> depth,
                    location |-> location, data |-> data,
                    outcome |-> r.outcome,
                    issued |-> Len(commands') - Len(commands),
                    value |-> IF r.outcome = "returned" THEN "unit" ELSE r.value,
                    chain |-> r.chain]
        /\ ncalls' = ncalls + 1
        /\ UNCHANGED T

\* t::send_uniform(context, location, data), one call of a sequence whose
\* calls are of several value types: T is the type of the latest call
SendUniformOf(t, location, data) ==
    LET r == send_uniform(t, location, data)
    IN  /\ ncalls < MaxSends
        /\ T' = t
        /\ commands' = IF r.outcome = "returned" THEN commands \o r.value
                                                 ELSE commands
        /\ call' = [op |-> "send_uniform", location |-> location, data |-> data,
                    outcome |-> r.outcome,
                    issued |-> Len(commands') - Len(commands),
                    value |-> IF r.outcome = "returned" THEN "unit" ELSE r.value,
                    chain |-> r.chain]
        /\ ncalls' = ncalls + 1

Query(op, r) ==
    /\ ncalls < MaxCalls
    /\ call' = [op |-> op, outcome |-> r.outcome, value |-> r.value]
    /\ ncalls' = ncalls + 1
    /\ UNCHANGED <<T, commands>>

\* T::internal_format()
InternalFormat == Query("internal_format", internal_format(T))

\* T::data_type()
DataType == Query("data_type", Returned(data_type(T)))

\* T::size()
Size == Query("size", Returned(size(T)))

\* format_from_data_type::<T>()
FormatFromDataType == Query("format_from_data_type", format_from_data_type(T))

RefQuery(op, depth, r) ==
    /\ ncalls < MaxCalls
    /\ call' = [op |-> op, depth |-> depth, outcome |-> r.outcome, value |-> r.value]
    /\ ncalls' = ncalls + 1
    /\ UNCHANGED <<T, commands>>

\* <&T>::internal_format()
RefInternalFormat(depth) ==
    RefQuery("ref_internal_format", depth, ref_internal_format(depth, T))

\* <&T>::data_type()
RefDataType(depth) ==
    RefQuery("ref_data_type", depth, Returned(ref_data_type(depth, T)))

\* <&T>::size()
RefSize(depth) == RefQuery("ref_size", depth, Returned(ref_size(depth, T)))

\* <T's primitive kind>::internal_format_with_size(n)
InternalFormatWithSize(n) ==
    LET r == internal_format_with_size(T.kind, n)
    IN  /\ ncalls < MaxCalls
        /\ call' = [op |-> "internal_format_with_size", size |-> n,
                    outcome |-> r.outcome, value |-> r.value]
        /\ ncalls' = ncalls + 1
        /\ UNCHANGED <<T, commands>>

Counts == 0..MaxCount

Next ==
    \/ \E location \in Locations, data \in Arrays(T) : SendUniform(location, data)
    \/ InternalFormat
    \/ DataType
    \/ Size
    \/ FormatFromDataType

Spec == Init /\ [][Next]_vars

\* the classifier and the format resolutions alone
NextFormat ==
    \/ \E n \in Counts : InternalFormatWithSize(n)
    \/ InternalFormat
    \/ DataType
    \/ Size
    \/ FormatFromDataType

SpecFormat == Init /\ [][NextFormat]_vars

\* the implementation for &T next to the one for T
Depths == 1..MaxDepth

\* the references of a depth to the values of t
Refs(t, depth) == {RefTo(depth, v) : v \in Values(t)}

\* arrays of references: every array of direct references up to MaxLen, two
\* arrays of each deeper kind
RefArrays(t, depth) ==
    IF depth = 1 THEN SeqsUpTo(Refs(t, 1), MaxLen)
    ELSE {<<RefTo(depth, Value(t, 0))>>,
          <<RefTo(depth, Value(t, 1)), RefTo(depth, Value(t, 0))>>}

NextRef ==
    \/ \E location \in Locations, data \in Arrays(T) : SendUniform(location, data)
    \/ \E depth \in Depths :
          \E location \in Locations, data \in RefArrays(T, depth) :
              RefSendUniform(depth, location, data)
    \/ \E depth \in Depths : RefInternalFormat(depth)
    \/ \E depth \in Depths : RefDataType(depth)
    \/ \E depth \in Depths : RefSize(depth)

SpecRef == Init /\ [][NextRef]_vars

\* sequences of sends of several value types to the two locations
SeqTypes ==
    {[shape |-> "Vector2", kind |-> "u8"], [shape |-> "Array3", kind |-> "i16"],
     [shape |-> "Matrix3", kind |-> "f16"], [shape |-> "Matrix2", kind |-> "i32"]}

SeqArrays(t) == {<<Value(t, 0)>>, <<Value(t, 1), Value(t, 0)>>}

NextSeq ==
    \E t \in SeqTypes :
        \E location \in Locations, data \in SeqArrays(t) :
            SendUniformOf(t, location, data)

SpecSeq == Init /\ [][NextSeq]_vars

\* to_byte_slice(data), the array lying at address addr
ToByteSlice(addr, data) ==
    /\ call' = [op |-> "to_byte_slice", addr |-> addr, data |-> data,
                outcome |-> "returned", value |-> to_byte_slice(T, data)]
    /\ UNCHANGED <<T, commands, ncalls>>

\* from_byte_slice::<T>(bytes), the buffer lying at address addr
FromByteSlice(addr, bytes) ==
    /\ call' = [op |-> "from_byte_slice", addr |-> addr, bytes |-> bytes,
                source |-> <<>>, of_view |-> FALSE,
                outcome |-> "returned", value |-> from_byte_slice(T, addr, bytes)]
    /\ UNCHANGED <<T, commands, ncalls>>

\* from_byte_slice::<T>(to_byte_slice(data)): the view just taken is read back
FromByteSliceOfView ==
    /\ call.op = "to_byte_slice"
    /\ call' = [op |-> "from_byte_slice", addr |-> call.addr, bytes |-> call.value,
                source |-> call.data, of_view |-> TRUE,
                outcome |-> "returned",
                value |-> from_byte_slice(T, call.addr, call.value)]
    /\ UNCHANGED <<T, commands, ncalls>>

NextBytes ==
    \/ \E addr \in AlignedAddresses(T), data \in Arrays(T) : ToByteSlice(addr, data)
    \/ \E addr \in Addresses, bytes \in ByteBuffers : FromByteSlice(addr, bytes)
    \/ FromByteSliceOfView

SpecBytes == Init /\ [][NextBytes]_vars

(***************************************************************************)
(* Vocabulary of the properties.                                           *)
(***************************************************************************)
\* element kind and rank of a transfer entry point, read off its name
EntryElem(entry) ==
    CASE entry \in {"uniform_1_u32_slice", "uniform_2_u32_slice",
                    "uniform_3_u32_slice", "uniform_4_u32_slice"} -> "UInt32"
      [] entry \in {"uniform_1_i32_slice", "uniform_2_i32_slice",
                    "uniform_3_i32_slice", "uniform_4_i32_slice"} -> "Int32"
      [] entry \in {"uniform_1_f32_slice", "uniform_2_f32_slice",
                    "uniform_3_f32_slice", "uniform_4_f32_slice",
                    "uniform_matrix_2_f32_slice", "uniform_matrix_3_f32_slice",
                    "uniform_matrix_4_f32_slice"} -> "Float32"

EntryRank(entry) ==
    CASE entry \in {"uniform_1_u32_slice", "uniform_1_i32_slice",
                    "uniform_1_f32_slice"} -> "Scalar"
      [] entry \in {"uniform_2_u32_slice", "uniform_2_i32_slice",
                    "uniform_2_f32_slice"} -> "Vec2"
      [] entry \in {"uniform_3_u32_slice", "uniform_3_i32_slice",
                    "uniform_3_f32_slice"} -> "Vec3"
      [] entry \in {"uniform_4_u32_slice", "uniform_4_i32_slice",
                    "uniform_4_f32_slice"} -> "Vec4"
      [] entry = "uniform_matrix_2_f32_slice" -> "Mat2"
      [] entry = "uniform_matrix_3_f32_slice" -> "Mat3"
      [] entry = "uniform_matrix_4_f32_slice" -> "Mat4"

\* the rank of a value type, by its shape
RankOf(t) ==
    CASE t.shape = "Scalar" -> "Scalar"
      [] t.shape \in {"Vector2", "Array2"} -> "Vec2"
      [] t.shape \in {"Vector3", "Array3"} -> "Vec3"
      [] t.shape \in {"Vector4", "Array4", "Quaternion", "Color"} -> "Vec4"
      [] t.shape = "Matrix2" -> "Mat2"
      [] t.shape = "Matrix3" -> "Mat3"
      [] t.shape = "Matrix4" -> "Mat4"

\* flat scalars per value of a rank
RankCount(rank) ==
    CASE rank = "Scalar" -> 1
      [] rank = "Vec2" -> 2
      [] rank = "Vec3" -> 3
      [] rank \in {"Vec4", "Mat2"} -> 4
      [] rank = "Mat3" -> 9
      [] rank = "Mat4" -> 16

PromotionTarget(kind) ==
    CASE kind \in {"u8", "u16", "u32"} -> "UInt32"
      [] kind \in {"i8", "i16", "i32"} -> "Int32"
      [] kind \in {"f16", "f32"} -> "Float32"

\* the number a floating point element stands for: sig * 2^exp with sig odd
RECURSIVE Canon(_, _, _)
Canon(s, sig, exp) ==
    IF sig % 2 = 0 THEN Canon(s, sig \div 2, exp + 1)
    ELSE [class |-> "finite", s |-> s, sig |-> sig, exp |-> exp]

NumberOfFloat(x, ebits, mbits) ==
    LET emax == Pow2(ebits) - 1
        bias == Pow2(ebits - 1) - 1
    IN  IF x.e = emax
        THEN IF x.m = 0 THEN [class |-> "infinite", s |-> x.s, sig |-> 0, exp |-> 0]
                        ELSE [class |-> "nan", s |-> 0, sig |-> 0, exp |-> 0]
        ELSE IF x.e = 0
        THEN IF x.m = 0 THEN [class |-> "zero", s |-> x.s, sig |-> 0, exp |-> 0]
                        ELSE Canon(x.s, x.m, 1 - bias - mbits)
        ELSE Canon(x.s, Pow2(mbits) + x.m, x.e - bias - mbits)

NumberOf(kind, x) ==
    CASE kind = "f16" -> NumberOfFloat(x, 5, 10)
      [] kind = "f32" -> NumberOfFloat(x, 8, 23)
      [] OTHER -> x

InRange(kind, x) ==
    CASE kind = "UInt32" -> x >= 0
      [] kind = "Int32" -> TRUE
      [] kind = "Float32" -> x.s \in 0..1 /\ x.e \in 0..255 /\ x.m \in 0..8388607

WideKind(target) ==
    CASE target = "UInt32" -> "u32" [] target = "Int32" -> "i32"
      [] target = "Float32" -> "f32"

SentSend == call.op = "send_uniform"
LastCommand == commands[Len(commands)]
NarrowArray == SentSend /\ T.shape # "Color" /\ T.kind \in NarrowKinds
IntegerMatrix == T.shape \in MatrixShapes /\ T.kind \in IntKinds

\* the transfer of this call carries the array's components, widened
PromotedTransfer ==
    /\ call.outcome = "returned"
    /\ call.issued = 1
    /\ LET c == LastCommand
           orig == flat_map(T.shape, call.data)
       IN  /\ c.location = call.location
           /\ EntryElem(c.entry) = PromotionTarget(T.kind)
           /\ EntryRank(c.entry) = RankOf(T)
           /\ Len(c.data) = Len(call.data) * RankCount(RankOf(T))
           /\ Len(c.data) = Len(orig)
           /\ \A i \in 1..Len(orig) :
                /\ InRange(PromotionTarget(T.kind), c.data[i])
                /\ NumberOf(WideKind(PromotionTarget(T.kind)), c.data[i])
                      = NumberOf(T.kind, orig[i])

NoNarrowTransfer ==
    \A i \in 1..Len(commands) :
        EntryElem(commands[i].entry) \in {"UInt32", "Int32", "Float32"}

(***************************************************************************)
(* C1 (as amended): an array of a narrow kind is transferred with the      *)
(* promoted kind, the same rank and numerically equal elements in the same *)
(* order, for every rank the promoted kind has a transfer for: all ranks   *)
(* for Float16, the scalar and vector ranks for the integer kinds.  An     *)
(* integer matrix issues no transfer.  No transfer ever has an 8-bit or    *)
(* 16-bit element representation.                                          *)
(***************************************************************************)
C1_NarrowPromotion ==
    /\ NoNarrowTransfer
    /\ NarrowArray =>
         IF IntegerMatrix THEN call.issued = 0 ELSE PromotedTransfer

\* C1 as stated: every rank of every narrow kind is transferred
C1_AsStated == NarrowArray => PromotedTransfer

C1_Witness ==
    /\ NarrowArray /\ T.kind = "i8" /\ T.shape = "Vector3"
    /\ Len(call.data) = 2
    /\ call.issued = 1
    /\ \E i \in 1..Len(LastCommand.data) : LastCommand.data[i] < 0

(***************************************************************************)
(* C2: sending an integer matrix surfaces as an explicit "unsupported      *)
(* uniform type" error returned to the caller; no transfer is issued and   *)
(* the call is neither accepted nor aborted.                               *)
(***************************************************************************)
C2_ExplicitError ==
    (SentSend /\ IntegerMatrix) =>
        /\ call.outcome = "error"
        /\ call.issued = 0

(***************************************************************************)
(* C3: from_byte_slice on a buffer whose start is not aligned for T, or    *)
(* whose length is not a multiple of T's size, yields an explicit error    *)
(* and never a view that drops bytes of the input.                         *)
(***************************************************************************)
BadBuffer ==
    /\ call.op = "from_byte_slice"
    /\ \/ call.addr % align_of(T) # 0
       \/ Len(call.bytes) % size_of(T) # 0

C3_RejectsBadBuffer == BadBuffer => call.outcome = "error"

(***************************************************************************)
(* C4: reading back the byte view of an array gives the array again, same  *)
(* length and element-wise equal, and the view of n values has exactly     *)
(* n * size_of(T) bytes.                                                   *)
(***************************************************************************)
C4_RoundTrip ==
    /\ call.op = "to_byte_slice" =>
          Len(call.value) = Len(call.data) * size_of(T)
    /\ (call.op = "from_byte_slice" /\ call.of_view) =>
          /\ Len(call.bytes) = Len(call.source) * size_of(T)
          /\ Len(call.value) = Len(call.source)
          /\ \A i \in 1..Len(call.source) : call.value[i] = call.source[i]

C4_Witness ==
    /\ call.op = "from_byte_slice" /\ call.of_view
    /\ T = [shape |-> "Vector3", kind |-> "i16"]
    /\ Len(call.source) = 2
    /\ call.source[1] # call.source[2]
    /\ Len(call.value) = 2

(***************************************************************************)
(* C5: for every supported value type, storage-format resolution and       *)
(* image-format resolution return a tag; the unreachable branch is never   *)
(* taken.                                                                  *)
(***************************************************************************)
C5_AlwaysATag ==
    call.op \in {"internal_format", "format_from_data_type"} =>
        call.outcome = "returned"

(***************************************************************************)
(* C6 (as amended): the packed color has component count 4 and is sent as  *)
(* Float32 Vec4, while the classifier reports the UInt8 kind for it: wire  *)
(* tag UNSIGNED_BYTE and storage format RGBA8.                             *)
(***************************************************************************)
SentAsFloat32Vec4 ==
    /\ call.outcome = "returned"
    /\ call.issued = 1
    /\ EntryElem(LastCommand.entry) = "Float32"
    /\ EntryRank(LastCommand.entry) = "Vec4"

C6_ColorClassification ==
    T = ColorType =>
        /\ call.op = "size" => call.value = 4
        /\ call.op = "data_type" => call.value = "UNSIGNED_BYTE"
        /\ call.op = "internal_format" =>
              call.outcome = "returned" /\ call.value = "RGBA8"
        /\ call.op = "send_uniform" => SentAsFloat32Vec4

\* C6 as stated: the classifier reports the Float32 kind the dispatch uses
C6_AsStated ==
    T = ColorType =>
        /\ call.op = "data_type" => call.value = "FLOAT"
        /\ call.op = "internal_format" =>
              call.outcome = "returned" /\ call.value = "RGBA32F"
        /\ call.op = "send_uniform" => SentAsFloat32Vec4

C6_Witness ==
    /\ T = ColorType
    /\ call.op = "send_uniform"
    /\ call.issued = 1
    /\ Len(call.data) = 1

(***************************************************************************)
(* C7: n packed colors are sent through the Float32 Vec4 transfer as 4n    *)
(* floats, color k giving (r/255, g/255, b/255, a/255) in that order, each *)
(* the f32 nearest to the quotient; every value lies in [0,1], channel 0   *)
(* is sent as 0 and channel 255 as 1.                                      *)
(***************************************************************************)
InUnitInterval(x) == x.s = 0 /\ (x.e < 127 \/ (x.e = 127 /\ x.m = 0))

Abs(n) == IF n < 0 THEN -n ELSE n

\* x is the f32 nearest to c / 255
NearestQuotient(x, c) ==
    IF c = 0 THEN x = F(0, 0, 0)
    ELSE LET j == 127 - x.e
         IN  /\ x.s = 0 /\ j \in 0..8
             /\ (c * Pow2(j)) - 255 \in 0..254
             /\ 2 * Abs((x.m * 255) - (((c * Pow2(j)) - 255) * 8388608)) <= 255

ChannelsOf(v) == <<v.r, v.g, v.b, v.a>>

C7_ColorNormalization ==
    (SentSend /\ T = ColorType) =>
        /\ SentAsFloat32Vec4
        /\ LastCommand.entry = "uniform_4_f32_slice"
        /\ LastCommand.location = call.location
        /\ Len(LastCommand.data) = 4 * Len(call.data)
        /\ \A k \in 1..Len(call.data), ch \in 1..4 :
              LET x == LastCommand.data[(4 * (k - 1)) + ch]
                  c == ChannelsOf(call.data[k])[ch]
              IN  /\ NearestQuotient(x, c)
                  /\ InUnitInterval(x)
                  /\ c = 0 => x = F(0, 0, 0)
                  /\ c = 255 => x = F(0, 127, 0)
        /\ \A c \in 0..255 :
              /\ InUnitInterval(normalize_channel(c))
              /\ NearestQuotient(normalize_channel(c), c)

C7_Witness ==
    /\ SentSend /\ T = ColorType
    /\ Len(call.data) = 2
    /\ call.data[1] = [r |-> 255, g |-> 128, b |-> 0, a |-> 255]
    /\ Len(commands) = 1
    /\ LastCommand.data[2] = F(0, 126, 32897)

(***************************************************************************)
(* C8: an array of K-component vectors flattens to the components of each  *)
(* value in the order x, y[, z[, w]], values in array order; the           *)
(* named-field and the array representation of the same components give    *)
(* the same transfer, of rank Vec-K; a quaternion flattens as a Vec4 in    *)
(* the order (x, y, z, scalar part).                                       *)
(***************************************************************************)
Arity(shape) ==
    CASE shape \in {"Vector2", "Array2"} -> 2
      [] shape \in {"Vector3", "Array3"} -> 3
      [] shape \in {"Vector4", "Array4", "Quaternion"} -> 4

FieldOf(v, i) ==
    CASE i = 1 -> v.x [] i = 2 -> v.y [] i = 3 -> v.z [] i = 4 -> v.w

ComponentOf(shape, v, i) ==
    CASE shape \in VectorShapes -> FieldOf(v, i)
      [] shape \in ArrayShapes -> v[i]
      [] shape = "Quaternion" -> IF i = 4 THEN v.s ELSE FieldOf(v.v, i)

ArrayShapeOf(shape) ==
    CASE shape = "Vector2" -> "Array2" [] shape = "Vector3" -> "Array3"
      [] shape = "Vector4" -> "Array4"

AsArray(shape, v) == [i \in 1..Arity(shape) |-> FieldOf(v, i)]

VectorLike == T.shape \in VectorShapes \cup ArrayShapes \cup {"Quaternion"}

C8_VectorFlattening ==
    (SentSend /\ VectorLike) =>
        LET K == Arity(T.shape)
            c == LastCommand
        IN  /\ call.outcome = "returned" /\ call.issued = 1
            /\ EntryRank(c.entry) = RankOf(T)
            /\ RankCount(RankOf(T)) = K
            /\ Len(c.data) = K * Len(call.data)
            /\ \A k \in 1..Len(call.data), i \in 1..K :
                  NumberOf(WideKind(PromotionTarget(T.kind)), c.data[(K * (k - 1)) + i])
                     = NumberOf(T.kind, ComponentOf(T.shape, call.data[k], i))
            /\ T.shape \in VectorShapes =>
                  <<c>> = send_uniform([shape |-> ArrayShapeOf(T.shape), kind |-> T.kind],
                                       call.location,
                                       [k \in 1..Len(call.data) |->
                                           AsArray(T.shape, call.data[k])]).value

C8_Witness ==
    /\ SentSend /\ T = [shape |-> "Quaternion", kind |-> "f32"]
    /\ Len(call.data) = 2
    /\ call.issued = 1
    /\ LastCommand.data[4] = call.data[1].s
    /\ call.data[1].s # call.data[1].v.x

(***************************************************************************)
(* C9: an array of KxK Float32 matrices flattens column-major (column x,   *)
(* then y, z, w, each in x, y[, z[, w]] order) and goes through the        *)
(* send-matrix-K entry point with the transpose flag false.                *)
(***************************************************************************)
Dim(shape) ==
    CASE shape = "Matrix2" -> 2 [] shape = "Matrix3" -> 3 [] shape = "Matrix4" -> 4

MatrixEntry(shape) ==
    CASE shape = "Matrix2" -> "uniform_matrix_2_f32_slice"
      [] shape = "Matrix3" -> "uniform_matrix_3_f32_slice"
      [] shape = "Matrix4" -> "uniform_matrix_4_f32_slice"

Float32Matrix == T.shape \in MatrixShapes /\ T.kind = "f32"

C9_MatrixFlattening ==
    (SentSend /\ Float32Matrix) =>
        LET K == Dim(T.shape)
            c == LastCommand
        IN  /\ call.outcome = "returned" /\ call.issued = 1
            /\ c.entry = MatrixEntry(T.shape)
            /\ c.location = call.location
            /\ c.transpose = "false"
            /\ Len(c.data) = K * K * Len(call.data)
            /\ \A k \in 1..Len(call.data), col \in 1..K, row \in 1..K :
                  c.data[(K * K * (k - 1)) + (K * (col - 1)) + row]
                     = FieldOf(FieldOf(call.data[k], col), row)

C9_Witness ==
    /\ SentSend /\ T = [shape |-> "Matrix2", kind |-> "f32"]
    /\ Len(call.data) = 2
    /\ call.issued = 1
    /\ call.data[1].x.y # call.data[1].y.x
    /\ LastCommand.data[2] = call.data[1].x.y

(***************************************************************************)
(* C10: image format resolution depends only on the component count:       *)
(* 1 gives RED, 2 RG, 3 RGB, 4 RGBA, and value types of equal component    *)
(* count resolve alike, whatever their kind or representation.             *)
(***************************************************************************)
ComponentCount(t) == RankCount(RankOf(t))

ImageTag(n) ==
    CASE n = 1 -> "RED" [] n = 2 -> "RG" [] n = 3 -> "RGB" [] n = 4 -> "RGBA"

C10_ImageFormatByCount ==
    call.op = "format_from_data_type" =>
        /\ ComponentCount(T) \in 1..4 =>
              call.outcome = "returned" /\ call.value = ImageTag(ComponentCount(T))
        /\ \A t \in ValueTypes :
              ComponentCount(t) = ComponentCount(T) =>
                 format_from_data_type(t) =
                     [outcome |-> call.outcome, value |-> call.value]

C10_Witness ==
    /\ call.op = "format_from_data_type"
    /\ T = [shape |-> "Matrix2", kind |-> "i16"]
    /\ call.value = "RGBA"

(***************************************************************************)
(* C11: for every kind, storage-format resolution asked for a component    *)
(* count outside 1..4 (0 and 5 among them) fails fast and returns no tag;  *)
(* so do storage-format and image-format resolution for a value type whose *)
(* component count is outside 1..4.                                        *)
(***************************************************************************)
C11_UnreachableGuard ==
    /\ (call.op = "internal_format_with_size" /\ call.size \notin 1..4) =>
          call.outcome = "panic"
    /\ (call.op \in {"internal_format", "format_from_data_type"}
            /\ ComponentCount(T) \notin 1..4) =>
          call.outcome = "panic"

C11_Witness ==
    /\ call.op = "internal_format_with_size"
    /\ T.kind = "f16"
    /\ call.size = 5
    /\ call.outcome = "panic"

\* a (BaseKind, Rank) combination the dispatch has a transfer for
Supported(t) == ~(t.shape \in MatrixShapes /\ t.kind \in IntKinds)

\* the element kind a value type is transferred with: the promotion target
\* of its kind, Float32 for the packed color
TransferElem(t) ==
    IF t.shape = "Color" THEN "Float32" ELSE PromotionTarget(t.kind)

\* a step that is one send_uniform call
SendStep == call'.op = "send_uniform" /\ ncalls' = ncalls + 1

\* a step that leaves the commands received so far in place, in their order
KeepsEarlier == SubSeq(commands', 1, Len(commands)) = commands

(***************************************************************************)
(* C12: in a sequence of send_uniform calls on supported combinations      *)
(* every call adds exactly one transfer command behind the ones received   *)
(* before, and its entry point is the one of (promoted kind, rank):        *)
(* send-1/2/3/4-scalars of UInt32, Int32 or Float32 for the scalar and     *)
(* vector ranks, send-matrix-2/3/4 of Float32 for the matrix ranks.        *)
(***************************************************************************)
C12_DispatchOrder ==
    [][(SendStep /\ Supported(T')) =>
          /\ Len(commands') = Len(commands) + 1
          /\ KeepsEarlier
          /\ LET c == commands'[Len(commands')]
             IN  /\ c.location = call'.location
                 /\ EntryElem(c.entry) = TransferElem(T')
                 /\ EntryRank(c.entry) = RankOf(T')
                 /\ c.entry \in
                      IF RankOf(T') \in {"Mat2", "Mat3", "Mat4"}
                      THEN {"uniform_matrix_2_f32_slice", "uniform_matrix_3_f32_slice",
                            "uniform_matrix_4_f32_slice"}
                      ELSE {"uniform_1_u32_slice", "uniform_2_u32_slice",
                            "uniform_3_u32_slice", "uniform_4_u32_slice",
                            "uniform_1_i32_slice", "uniform_2_i32_slice",
                            "uniform_3_i32_slice", "uniform_4_i32_slice",
                            "uniform_1_f32_slice", "uniform_2_f32_slice",
                            "uniform_3_f32_slice", "uniform_4_f32_slice"}]_vars

C12_Witness ==
    /\ ncalls = 3
    /\ Len(commands) = 3
    /\ commands[1].entry = "uniform_matrix_3_f32_slice"
    /\ commands[2].entry = "uniform_2_u32_slice"
    /\ commands[3].entry = "uniform_3_i32_slice"

\* positions (k-1)*count + 1 .. k*count of a flat buffer: the run of value k
RunOf(buffer, k, count) == SubSeq(buffer, (k - 1) * count + 1, k * count)

(***************************************************************************)
(* C13: the component count the classifier reports is the one of the rank  *)
(* (1, 2, 3, 4, 4, 9, 16 for Scalar .. Mat4; 4 for quaternion and packed   *)
(* color), and sending n values hands the dispatch a flat buffer of        *)
(* n * count scalars in which value k has the run of count positions       *)
(* starting at (k-1) * count; the data of the transfer command has the     *)
(* same length and the same runs, each run being what value k sent alone   *)
(* is transferred as.                                                      *)
(***************************************************************************)
C13_RankCountConsistency ==
    /\ call.op = "size" => call.value = RankCount(RankOf(T))
    /\ SentSend =>
         LET count == RankCount(RankOf(T))
             n == Len(call.data)
             handed == flat_map(T.shape, call.data)
         IN  /\ size(T) = count
             /\ Len(handed) = n * count
             /\ \A k \in 1..n : RunOf(handed, k, count) = flat(T.shape, call.data[k])
             /\ call.outcome = "returned" =>
                  /\ call.issued = 1
                  /\ Len(LastCommand.data) = n * count
                  /\ \A k \in 1..n :
                       RunOf(LastCommand.data, k, count) =
                          send_uniform(T, call.location, <<call.data[k]>>).value[1].data

C13_Witness ==
    /\ SentSend
    /\ T = [shape |-> "Matrix3", kind |-> "f32"]
    /\ Len(call.data) = 2
    /\ call.data[1] # call.data[2]
    /\ Len(LastCommand.data) = 18

\* the data the uniform at a location holds: that of the latest command
\* addressed to it
Delivered(location) ==
    LET sent == {i \in 1..Len(commands) : commands[i].location = location}
    IN  IF sent = {} THEN [set |-> FALSE, data |-> <<>>]
        ELSE [set |-> TRUE,
              data |-> commands[CHOOSE i \in sent : \A j \in sent : j <= i].data]

\* the kind of the scalars send_uniform flattens an array of t into
FlatKind(t) == IF t.shape = "Color" THEN "f32" ELSE t.kind

\* buffer is the flattened array, promoted: as long, and scalar by scalar
\* the same number in the representation of the transfer
FlattenedAndPromoted(held, t, data) ==
    LET orig == flat_map(t.shape, data)
        buffer == held.data
    IN  /\ held.set
        /\ Len(buffer) = Len(orig)
        /\ \A i \in 1..Len(orig) :
             /\ InRange(TransferElem(t), buffer[i])
             /\ NumberOf(WideKind(TransferElem(t)), buffer[i])
                   = NumberOf(FlatKind(t), orig[i])

(***************************************************************************)
(* C14: no transfer state persists between calls.  A send_uniform call     *)
(* that returns leaves at its location exactly the flattened and promoted  *)
(* data of its own array, whatever was sent before; it issues no command   *)
(* for another location, so that every other location keeps what it held,  *)
(* and the commands received earlier stay as they were; a call that does   *)
(* not return changes nothing.  The array the caller passed is the one     *)
(* the call was made with.                                                 *)
(***************************************************************************)
C14_NoPersistentState ==
    [][SendStep =>
          /\ KeepsEarlier
          /\ \A i \in (Len(commands) + 1)..Len(commands') :
                commands'[i].location = call'.location
          /\ \A other \in Locations \ {call'.location} :
                Delivered(other)' = Delivered(other)
          /\ IF call'.outcome = "returned"
             THEN \A location \in Locations :
                     location = call'.location =>
                        FlattenedAndPromoted(Delivered(location)', T', call'.data)
             ELSE commands' = commands
          /\ call'.data \in SeqArrays(T')]_vars

C14_Witness ==
    /\ ncalls = 3
    /\ Len(commands) = 3
    /\ commands[1].location = "locA"
    /\ commands[2].location = "locB"
    /\ commands[3].location = "locA"
    /\ commands[1].entry = commands[3].entry
    /\ commands[1].data # commands[3].data
    /\ Delivered("locA").data = commands[3].data
    /\ Delivered("locB").data = commands[2].data

NativeKinds == Kinds \ NarrowKinds

\* a call of send_uniform, on T or on &T
AnySend == call.op \in {"send_uniform", "ref_send_uniform"}

\* the levels of reference of the type the call was made on
CallDepth == IF call.op = "ref_send_uniform" THEN call.depth ELSE 0

\* the forwarding steps of a chain, and the dispatches entered after them
ForwardingSteps(chain) == Cardinality({i \in 1..Len(chain) : chain[i] = "ref"})
OwnDispatch(chain) == SubSeq(chain, ForwardingSteps(chain) + 1, Len(chain))

\* own is the dispatch chain of the value type T: its kind first; a narrow
\* kind is followed by its promotion target, a native one, and nothing
\* else; a native kind by nothing
KindChain(own) ==
    /\ own # <<>>
    /\ \A i \in 1..Len(own) : own[i] \in Kinds
    /\ own[1] = FlatKind(T)
    /\ IF own[1] \in NarrowKinds
       THEN /\ Len(own) = 2
            /\ own[2] \in NativeKinds
            /\ own[2] = WideKind(PromotionTarget(own[1]))
       ELSE Len(own) = 1

(***************************************************************************)
(* C15 (as amended): every send_uniform call ends, returning or panicking, *)
(* after a bounded chain of dispatches.  The dispatch of a narrow kind     *)
(* hands over exactly once, to its promotion target, which is UInt32,      *)
(* Int32 or Float32; the dispatch of a native kind hands over to no other  *)
(* kind.  Reference forwarding adds exactly one step per level of          *)
(* reference in front of the value type's own dispatch: none for T, one    *)
(* for &T, two for &&T; the chain has at most depth + 2 steps.             *)
(***************************************************************************)
C15_BoundedDispatch ==
    AnySend =>
        /\ call.outcome \in {"returned", "panic"}
        /\ ForwardingSteps(call.chain) = CallDepth
        /\ \A i \in 1..CallDepth : call.chain[i] = "ref"
        /\ KindChain(OwnDispatch(call.chain))
        /\ Len(call.chain) <= CallDepth + 2

\* C15 as stated: reference forwarding adds at most one step, whatever the
\* type the call is made on
C15_AsStated ==
    AnySend =>
        /\ call.outcome \in {"returned", "panic"}
        /\ ForwardingSteps(call.chain) <= 1
        /\ KindChain(OwnDispatch(call.chain))

C15_Witness ==
    /\ call.op = "ref_send_uniform"
    /\ call.depth = 2
    /\ call.chain = <<"ref", "ref", "i16", "i32">>
    /\ call.outcome = "returned"
    /\ Len(call.data) = 2

\* the values an array of references points to, in the order of the array
RECURSIVE Referent(_, _)
Referent(depth, r) == IF depth = 0 THEN r ELSE Referent(depth - 1, r.to)

Referenced(depth, refs) == [i \in 1..Len(refs) |-> Referent(depth, refs[i])]

(***************************************************************************)
(* C16: reference forwarding is transparent.  &T reports the storage       *)
(* format (or fails as T does), the wire data-type tag and the component   *)
(* count of T, and sending an array of references does what sending the    *)
(* array of the referenced values does: the same single command (entry     *)
(* point, location, transpose flag, flat data in the same order), or the   *)
(* same panic and no command.  The same holds for &&T, level by level.     *)
(***************************************************************************)
C16_ReferenceTransparency ==
    /\ call.op = "ref_internal_format" =>
          [outcome |-> call.outcome, value |-> call.value] = internal_format(T)
    /\ call.op = "ref_data_type" => call.value = data_type(T)
    /\ call.op = "ref_size" => call.value = size(T)
    /\ call.op = "ref_send_uniform" =>
          LET direct == send_uniform(T, call.location, Referenced(call.depth, call.data))
          IN  /\ call.outcome = direct.outcome
              /\ IF direct.outcome = "returned"
                 THEN /\ call.issued = 1
                      /\ <<LastCommand>> = direct.value
                 ELSE /\ call.issued = 0
                      /\ call.value = direct.value

C16_Witness ==
    /\ call.op = "ref_send_uniform"
    /\ T = [shape |-> "Quaternion", kind |-> "f16"]
    /\ call.depth = 1
    /\ call.data = <<[to |-> Value(T, 1)], [to |-> Value(T, 0)]>>
    /\ Value(T, 1) # Value(T, 0)
    /\ call.outcome = "returned"
    /\ LastCommand.entry = "uniform_4_f32_slice"
    /\ Len(LastCommand.data) = 8
====
